---- MODULE Spec2Model ----
(***************************************************************************)
(* Model of the travel-buddy backend (src/app.py): four stateless Flask    *)
(* handlers, /chat, /weather, /hotels and /geocode.  One behaviour of the  *)
(* model is the handling of one request: the handler runs from the arrival *)
(* of the request to its response, one action per outbound call.  What the *)
(* upstream services answer is chosen nondeterministically.                *)
(*                                                                         *)
(* Python strings are sequences of one-character strings; a literal of the *)
(* source (a fixed reply, a URL prefix, an exception text) is kept as one  *)
(* token of such a sequence.  None and an absent key are the two sequences *)
(* None and Missing, whose token is no character.                          *)
(***************************************************************************)
EXTENDS Integers, Sequences, FiniteSets, TLC

\* Bounds of the upstream answers.
MaxPlaces == 6
MaxGeoResults == 2
MaxWeatherItems == 1

---------------------------------------------------------------------------
\* Python values

None == <<"None">>
Missing == <<"Missing">>

\* Python truthiness of a string-or-None value: `if x` / `if not x`.
Truthy(v) == v # None /\ v # Missing /\ v # <<>>

\* str.lower(), character by character.
LowerChar(c) ==
    CASE c = "H" -> "h"
      [] c = "I" -> "i"
      [] c = "E" -> "e"
      [] c = "Y" -> "y"
      [] c = "L" -> "l"
      [] c = "O" -> "o"
      [] OTHER -> c

Lower(s) == [i \in 1..Len(s) |-> LowerChar(s[i])]

IsSpace(c) == c \in {" ", "\t", "\n"}

RECURSIVE LStrip(_)
LStrip(s) == IF s # <<>> /\ IsSpace(Head(s)) THEN LStrip(Tail(s)) ELSE s

RECURSIVE RStrip(_)
RStrip(s) ==
    IF s # <<>> /\ IsSpace(s[Len(s)]) THEN RStrip(SubSeq(s, 1, Len(s) - 1)) ELSE s

\* str.strip()
Strip(s) == RStrip(LStrip(s))

\* s.split(",")[0]: the characters before the first comma (all of s if none).
RECURSIVE FirstToken(_)
FirstToken(s) ==
    IF s = <<>> \/ Head(s) = "," THEN <<>> ELSE <<Head(s)>> \o FirstToken(Tail(s))

---------------------------------------------------------------------------
\* Responses

NoResponse == [status |-> 0, json |-> <<>>]

\* jsonify(obj) with the default status.
Ok(obj) == [status |-> 200, json |-> obj]

\* jsonify({"error": msg}), status
Error(status, msg) == [status |-> status, json |-> [error |-> msg]]

\* Variant of Caught that forgets the status: jsonify({"error": str(e)}) alone.
CaughtBroken(e) == [status |-> 200, json |-> [error |-> e]]

\* The handlers' outer `except Exception as e`: jsonify({"error": str(e)}), 500
Caught(e) == Error(500, e)

\* No exception escaped the try block.
NoExc == <<"NoExc">>

Greeting == <<"Hello! I can help you plan trips. Where would you like to go?">>

Greetings == { <<"h", "i">>, <<"h", "e", "l", "l", "o">>, <<"h", "e", "y">> }

\* Variant of IsGreeting without .lower().
IsGreetingCaseSensitive(user_input) == Truthy(user_input) /\ user_input \in Greetings

\* `user_input and user_input.lower() in ["hi", "hello", "hey"]`
IsGreeting(user_input) == Truthy(user_input) /\ Lower(user_input) \in Greetings

\* Variant of NeedFallback that runs the fallback unconditionally.
NeedFallbackAlways(city) == TRUE

\* `if not city:` before the geocoding fallback of /chat
NeedFallback(city) == ~Truthy(city)

\* Variant of ParamMissing written `if city is None`.
ParamMissingOnlyAbsent(v) == v = None

\* `if not city:` / `if not place:` on the required query parameter
ParamMissing(v) == ~Truthy(v)

---------------------------------------------------------------------------
\* Inputs and upstream answers

\* The message of a /chat body.
Messages ==
    { <<"h", "i">>, <<"H", "i">>, <<"H", "E", "Y">>, <<"h", "e", "l", "l", "o">>,
      <<" ", "h", "i">>, <<"h", "e", "y", " ">>, <<"g", "o">>, <<>>, None }

\* request.json: no JSON body at all, or an object whose "message" is a
\* string or absent (dict.get then gives None).
ChatBodies == {[json |-> FALSE, message |-> None]}
              \cup {[json |-> TRUE, message |-> m] : m \in Messages}

\* A required query parameter: absent (None), empty, or a name.
Params == { None, <<>>, <<"P">>, <<"Q", "r">> }

\* str(e) of an exception raised by an outbound call.
ExcMsgs == { <<"timeout">>, <<>> }

\* The outcome of an outbound call: an exception with its text, or a value.
Raise(m) == [kind |-> "raise", msg |-> m, v |-> <<>>]
Return(v) == [kind |-> "ok", msg |-> <<>>, v |-> v]

\* choices[0].message.content of the itinerary call
Itineraries == { <<"Day 1:">>, <<"Day 2:">>, None }

\* choices[0].message.content of the city-extraction call
Extractions == { None, <<>>, <<" ">>, <<" ", "P", " ">>, <<"P">>, <<"R", " ", "S">> }

ModelOutcomes(contents) == {Raise(m) : m \in ExcMsgs} \cup {Return(c) : c \in contents}

\* One candidate of the geocoding search.
DisplayNames == { Missing, <<>>, <<",", "F">>, <<"P", ",", "F">>, <<"P">> }
GeoResults == [display_name : DisplayNames,
               lat : {Missing, <<"4", "8">>},
               lon : {Missing, <<"2">>}]

SeqsUpTo(S, n) == UNION {[1..k -> S] : k \in 0..n}

\* The geocoding search: an exception (network, unparseable body), a JSON
\* object instead of a list, or the list of candidates.
GeoOutcomes ==
    {Raise(m) : m \in ExcMsgs}
    \cup {[kind |-> "object", msg |-> <<>>, v |-> <<>>]}
    \cup {Return(r) : r \in SeqsUpTo(GeoResults, MaxGeoResults)}

\* What the geocoding search answered: "raise", "object", "empty" or "ok".
NomKind(out) == IF out.kind = "ok" /\ out.v = <<>> THEN "empty" ELSE out.kind

---------------------------------------------------------------------------
\* State of one request

VARIABLES
    endpoint,    \* the route of the request: "none" before it arrives
    pc,          \* position of the handler
    user_input,  \* /chat: request.json.get("message")
    query,       \* /weather, /hotels: city; /geocode: place
    reply,       \* /chat: the itinerary text
    city,        \* /chat: the local `city`
    coords,      \* /hotels: <<lat, lon>> of the first geocoding candidate
    calls,       \* the outbound calls issued so far, in order
    response,    \* the response returned, NoResponse before
    nresp,       \* number of responses returned
    raised,      \* str(e) of the exception the outer handler caught, or NoExc
    step2,       \* /chat: outcome of the city-extraction call
    step3,       \* /chat: how the geocoding fallback ended
    nom,         \* kind of the geocoding search's answer
    wx,          \* /weather: the weather upstream's answer
    features     \* /hotels: the places the points-of-interest upstream returned

vars == <<endpoint, pc, user_input, query, reply, city, coords, calls, response,
          nresp, raised, step2, step3, nom, wx, features>>

NotCalled == [kind |-> "none", msg |-> <<>>, v |-> <<>>]

Init ==
    /\ endpoint = "none"
    /\ pc = "idle"
    /\ user_input = None
    /\ query = None
    /\ reply = None
    /\ city = None
    /\ coords = <<>>
    /\ calls = <<>>
    /\ response = NoResponse
    /\ nresp = 0
    /\ raised = NoExc
    /\ step2 = NotCalled
    /\ step3 = "none"
    /\ nom = "none"
    /\ wx = NotCalled
    /\ features = <<>>

\* `return jsonify(...)`: the handler ends with this response.
Respond(r) ==
    /\ response' = r
    /\ nresp' = nresp + 1
    /\ pc' = "done"

\* The outcome of a try block: an escaped exception is answered by the
\* outer except clause, anything else is the response the block returned.
Finish(exc, r) ==
    /\ raised' = exc
    /\ Respond(IF exc # NoExc THEN Caught(exc) ELSE r)

Call(api, q) == calls' = Append(calls, [api |-> api, q |-> q])

---------------------------------------------------------------------------
\* POST /chat

\* Lines 61-70: read the message, answer a greeting at once.
ChatReceive(body) ==
    /\ pc = "idle"
    /\ endpoint' = "chat"
    /\ user_input' = body.message
    /\ IF ~body.json
         THEN /\ Finish(<<"'NoneType' object has no attribute 'get'">>, NoResponse)
         ELSE IF IsGreeting(body.message)
         THEN /\ Finish(NoExc, Ok([reply |-> Greeting, city |-> None]))
         ELSE /\ pc' = "chat_itinerary"
              /\ UNCHANGED <<response, nresp, raised>>
    /\ UNCHANGED <<query, reply, city, coords, calls, step2, step3, nom, wx, features>>

\* Lines 72-81: the itinerary call; its failure reaches the outer except.
ChatItinerary(out) ==
    /\ pc = "chat_itinerary"
    /\ Call("openai_itinerary", user_input)
    /\ IF out.kind = "raise"
         THEN /\ Finish(out.msg, NoResponse)
              /\ UNCHANGED reply
         ELSE /\ reply' = out.v
              /\ pc' = "chat_city"
              /\ UNCHANGED <<response, nresp, raised>>
    /\ UNCHANGED <<endpoint, user_input, query, city, coords, step2, step3, nom, wx,
                   features>>

\* Lines 85-96: `city` after the extraction call.  An exception of the call,
\* or of .strip() on a None content, is caught and leaves city = None.
ExtractCity(out) ==
    IF out.kind = "raise" \/ out.v = None THEN None ELSE Strip(out.v)

\* Lines 100-107: `city` after the geocoding fallback.  An exception is
\* caught and leaves city as it was.
FallbackCity(out, cur) ==
    IF out.kind \in {"raise", "object"} THEN cur
    ELSE IF out.v = <<>> THEN cur
    ELSE LET dn == out.v[1].display_name
             display_name == IF dn = Missing THEN <<>> ELSE dn
         IN  IF Truthy(display_name) THEN FirstToken(display_name) ELSE None

\* Lines 83-99 (and 109 when no fallback is needed).
ChatCityExtract(out) ==
    /\ pc = "chat_city"
    /\ Call("openai_city", user_input)
    /\ step2' = out
    /\ city' = ExtractCity(out)
    /\ IF NeedFallback(city')
         THEN /\ pc' = "chat_geo"
              /\ UNCHANGED <<response, nresp, raised>>
         ELSE Finish(NoExc, Ok([reply |-> reply, city |-> city']))
    /\ UNCHANGED <<endpoint, user_input, query, reply, coords, step3, nom, wx, features>>

\* Lines 99-109.
ChatGeoFallback(out) ==
    /\ pc = "chat_geo"
    /\ Call("nominatim", user_input)
    /\ nom' = NomKind(out)
    /\ step3' = IF out.kind \in {"raise", "object"} THEN "raised" ELSE "ok"
    /\ city' = FallbackCity(out, city)
    /\ Finish(NoExc, Ok([reply |-> reply, city |-> city']))
    /\ UNCHANGED <<endpoint, user_input, query, reply, coords, step2, wx, features>>

---------------------------------------------------------------------------
\* GET /weather

\* res.json() of the weather upstream: JSON null, a JSON list, or an object
\* with or without "main", main.temp, "weather", weather[i].description, "name".
WeatherData ==
    [shape : {"dict"}, main : BOOLEAN, temp : {Missing, <<"18">>}, weather : BOOLEAN,
     items : SeqsUpTo({Missing, <<"clear sky">>}, MaxWeatherItems),
     name : {Missing, <<"P">>}]
    \cup [shape : {"null", "list"}, main : {FALSE}, temp : {Missing}, weather : {FALSE},
          items : {<<>>}, name : {Missing}]

\* requests.get(url) and res.json(): either raises, or a status and a body.
WeatherOutcomes ==
    {Raise(m) : m \in ExcMsgs}
    \cup {[kind |-> "ok", msg |-> <<>>, v |-> <<>>, status |-> st, data |-> d] :
            st \in {200, 404}, d \in WeatherData}

\* Lines 123-135, the try block: the exception that escapes it, or its response.
WeatherTry(out, c) ==
    IF out.kind = "raise" THEN [exc |-> out.msg, resp |-> NoResponse]
    ELSE LET data == out.data IN
      IF out.status # 200 THEN [exc |-> NoExc, resp |-> Error(404, <<"Weather not found">>)]
      ELSE IF data.shape = "null"
        THEN [exc |-> <<"argument of type 'NoneType' is not iterable">>, resp |-> NoResponse]
      ELSE IF data.shape = "list" \/ ~data.main
        THEN [exc |-> NoExc, resp |-> Error(404, <<"Weather not found">>)]
      ELSE IF data.temp = Missing THEN [exc |-> <<"'temp'">>, resp |-> NoResponse]
      ELSE IF ~data.weather THEN [exc |-> <<"'weather'">>, resp |-> NoResponse]
      ELSE IF data.items = <<>>
        THEN [exc |-> <<"list index out of range">>, resp |-> NoResponse]
      ELSE IF data.items[1] = Missing
        THEN [exc |-> <<"'description'">>, resp |-> NoResponse]
      ELSE [exc |-> NoExc,
            resp |-> Ok([temperature |-> data.temp,
                         condition |-> data.items[1],
                         city |-> IF data.name = Missing THEN c ELSE data.name])]

\* Lines 119-121.
WeatherRequest(c) ==
    /\ pc = "idle"
    /\ endpoint' = "weather"
    /\ query' = c
    /\ IF ParamMissing(c)
         THEN Respond(Error(400, <<"City is required">>))
         ELSE /\ pc' = "weather_call"
              /\ UNCHANGED <<response, nresp>>
    /\ UNCHANGED <<user_input, reply, city, coords, calls, raised, step2, step3, nom, wx,
                   features>>

\* Lines 123-138.
WeatherCall(out) ==
    /\ pc = "weather_call"
    /\ Call("openweathermap", query)
    /\ wx' = out
    /\ LET r == WeatherTry(out, query) IN Finish(r.exc, r.resp)
    /\ UNCHANGED <<endpoint, user_input, query, reply, city, coords, step2, step3, nom,
                   features>>

---------------------------------------------------------------------------
\* GET /hotels

\* `limit=5` of the points-of-interest request (line 161).
Limit == 5

\* One feature of the points-of-interest answer: with or without
\* "properties"; its name absent, empty or given; its coordinates.
Places ==
    { [props |-> FALSE, name |-> Missing, lon |-> <<"1">>, lat |-> <<"2">>],
      [props |-> TRUE, name |-> Missing, lon |-> <<"3">>, lat |-> <<"4">>],
      [props |-> TRUE, name |-> <<>>, lon |-> <<"5">>, lat |-> <<"6">>],
      [props |-> TRUE, name |-> <<"A">>, lon |-> <<"7">>, lat |-> <<"8">>],
      [props |-> TRUE, name |-> <<"B">>, lon |-> <<"9">>, lat |-> <<"0">>] }

\* requests.get(places_url).json(): raises, is a JSON list, is an object
\* without "features", or an object with a list of features.
PlacesOutcomes ==
    {Raise(m) : m \in ExcMsgs}
    \cup {[kind |-> k, msg |-> <<>>, v |-> <<>>] : k \in {"list", "nofeatures"}}
    \cup {Return(f) : f \in SeqsUpTo(Places, MaxPlaces)}

\* Variant of HotelName written props.get("name", "").
HotelNameNoDefault(place) == IF place.name = Missing THEN <<>> ELSE place.name

\* props.get("name", "Unnamed")
HotelName(place) == IF place.name = Missing THEN <<"Unnamed">> ELSE place.name

\* Lines 175-185: the entry appended for a place.
Hotel(place, hotel_name, c) ==
    [name |-> hotel_name,
     lat |-> place.lat,
     lon |-> place.lon,
     map_link |-> <<"https://www.openstreetmap.org/?mlat=">> \o place.lat
                  \o <<"&mlon=">> \o place.lon \o <<"#map=18/">> \o place.lat
                  \o <<"/">> \o place.lon,
     booking_link |-> <<"https://www.booking.com/searchresults.html?ss=">>
                      \o hotel_name \o <<"+">> \o c,
     google_maps_link |-> <<"https://www.google.com/maps/search/">>
                          \o hotel_name \o <<"+">> \o c]

\* Lines 165-185: the loop over the features, from hotels_list = acc.
RECURSIVE HotelsLoop(_, _, _)
HotelsLoop(feats, c, acc) ==
    IF feats = <<>> THEN [exc |-> NoExc, list |-> acc]
    ELSE LET place == Head(feats) IN
      IF ~place.props THEN [exc |-> <<"'properties'">>, list |-> acc]
      ELSE LET hotel_name == HotelName(place) IN
        IF ~Truthy(hotel_name) THEN HotelsLoop(Tail(feats), c, acc)
        ELSE HotelsLoop(Tail(feats), c, Append(acc, Hotel(place, hotel_name, c)))

\* Lines 163-187.
PlacesTry(out, c) ==
    IF out.kind = "raise" THEN [exc |-> out.msg, list |-> <<>>]
    ELSE IF out.kind = "list"
      THEN [exc |-> <<"'list' object has no attribute 'get'">>, list |-> <<>>]
    ELSE IF out.kind = "nofeatures" THEN [exc |-> NoExc, list |-> <<>>]
    ELSE HotelsLoop(out.v, c, <<>>)

\* Lines 151-156: the geocoding step of /hotels.
HotelsGeoTry(out) ==
    IF out.kind = "raise" THEN [exc |-> out.msg, resp |-> NoResponse]
    ELSE IF out.kind = "object" THEN [exc |-> <<"0">>, resp |-> NoResponse]
    ELSE IF out.v = <<>> THEN [exc |-> NoExc, resp |-> Error(404, <<"City not found">>)]
    ELSE IF out.v[1].lat = Missing THEN [exc |-> <<"'lat'">>, resp |-> NoResponse]
    ELSE IF out.v[1].lon = Missing THEN [exc |-> <<"'lon'">>, resp |-> NoResponse]
    ELSE [exc |-> NoExc, resp |-> NoResponse]

\* Lines 144-146.
HotelsRequest(c) ==
    /\ pc = "idle"
    /\ endpoint' = "hotels"
    /\ query' = c
    /\ IF ParamMissing(c)
         THEN Respond(Error(400, <<"City is required">>))
         ELSE /\ pc' = "hotels_geo"
              /\ UNCHANGED <<response, nresp>>
    /\ UNCHANGED <<user_input, reply, city, coords, calls, raised, step2, step3, nom, wx,
                   features>>

\* Lines 148-156.
HotelsGeocode(out) ==
    /\ pc = "hotels_geo"
    /\ Call("nominatim", query)
    /\ nom' = NomKind(out)
    /\ LET r == HotelsGeoTry(out) IN
         IF r.exc # NoExc \/ r.resp # NoResponse
           THEN /\ Finish(r.exc, r.resp)
                /\ UNCHANGED coords
           ELSE /\ coords' = <<out.v[1].lat, out.v[1].lon>>
                /\ pc' = "hotels_places"
                /\ UNCHANGED <<response, nresp, raised>>
    /\ UNCHANGED <<endpoint, user_input, query, reply, city, step2, step3, wx, features>>

\* Lines 158-190.
HotelsPlaces(out) ==
    /\ pc = "hotels_places"
    /\ Call("opentripmap", coords)
    /\ features' = out.v
    /\ LET r == PlacesTry(out, query) IN Finish(r.exc, Ok(r.list))
    /\ UNCHANGED <<endpoint, user_input, query, reply, city, coords, step2, step3, nom,
                   wx>>

---------------------------------------------------------------------------
\* GET /geocode

\* Variant of GeocodeTry without the `if res:` test: any answer is a result.
GeocodeTryFound(out, p) ==
    IF out.kind = "raise" THEN [exc |-> out.msg, resp |-> NoResponse]
    ELSE [exc |-> NoExc, resp |-> Ok([name |-> p, lat |-> <<>>, lon |-> <<>>])]

\* Lines 201-212, the try block.
GeocodeTry(out, p) ==
    IF out.kind = "raise" THEN [exc |-> out.msg, resp |-> NoResponse]
    ELSE IF out.kind = "object" THEN [exc |-> <<"0">>, resp |-> NoResponse]
    ELSE IF out.v = <<>>
      THEN [exc |-> NoExc, resp |-> Error(404, <<"No results found">>)]
    ELSE IF out.v[1].lat = Missing THEN [exc |-> <<"'lat'">>, resp |-> NoResponse]
    ELSE IF out.v[1].lon = Missing THEN [exc |-> <<"'lon'">>, resp |-> NoResponse]
    ELSE [exc |-> NoExc,
          resp |-> Ok([name |-> IF out.v[1].display_name = Missing
                                  THEN p ELSE out.v[1].display_name,
                       lat |-> out.v[1].lat,
                       lon |-> out.v[1].lon])]

\* Lines 197-199.
GeocodeRequest(p) ==
    /\ pc = "idle"
    /\ endpoint' = "geocode"
    /\ query' = p
    /\ IF ParamMissing(p)
         THEN Respond(Error(400, <<"Place is required">>))
         ELSE /\ pc' = "geocode_call"
              /\ UNCHANGED <<response, nresp>>
    /\ UNCHANGED <<user_input, reply, city, coords, calls, raised, step2, step3, nom, wx,
                   features>>

\* Lines 201-215.
GeocodeCall(out) ==
    /\ pc = "geocode_call"
    /\ Call("nominatim", query)
    /\ nom' = NomKind(out)
    /\ LET r == GeocodeTry(out, query) IN Finish(r.exc, r.resp)
    /\ UNCHANGED <<endpoint, user_input, query, reply, city, coords, step2, step3, wx,
                   features>>

---------------------------------------------------------------------------
\* The handler's position selects the step; the request or the upstream's
\* answer is the step's input.
Next ==
    \/ pc = "idle" /\ \E b \in ChatBodies : ChatReceive(b)
    \/ pc = "chat_itinerary" /\ \E o \in ModelOutcomes(Itineraries) : ChatItinerary(o)
    \/ pc = "chat_city" /\ \E o \in ModelOutcomes(Extractions) : ChatCityExtract(o)
    \/ pc = "chat_geo" /\ \E o \in GeoOutcomes : ChatGeoFallback(o)
    \/ pc = "idle" /\ \E c \in Params : WeatherRequest(c)
    \/ pc = "weather_call" /\ \E o \in WeatherOutcomes : WeatherCall(o)
    \/ pc = "idle" /\ \E c \in Params : HotelsRequest(c)
    \/ pc = "hotels_geo" /\ \E o \in GeoOutcomes : HotelsGeocode(o)
    \/ pc = "hotels_places" /\ \E o \in PlacesOutcomes : HotelsPlaces(o)
    \/ pc = "idle" /\ \E p \in Params : GeocodeRequest(p)
    \/ pc = "geocode_call" /\ \E o \in GeoOutcomes : GeocodeCall(o)

Spec == Init /\ [][Next]_vars

---------------------------------------------------------------------------
\* Vocabulary of the properties

Done == pc = "done"

\* The 200 response of /hotels is a JSON array; every other body is an object.
IsArray == endpoint = "hotels" /\ response.status = 200

HasField(f) == response.status # 0 /\ ~IsArray /\ f \in DOMAIN response.json

ErrorIs(status, msg) ==
    /\ response.status = status
    /\ HasField("error")
    /\ response.json.error = msg

CallApis == [i \in 1..Len(calls) |-> calls[i].api]

Called(api) == \E i \in 1..Len(calls) : calls[i].api = api

IsPrefix(s, t) == Len(s) <= Len(t) /\ \A i \in 1..Len(s) : s[i] = t[i]

---------------------------------------------------------------------------
\* C1, as stated: every /chat message that is "hi", "hello" or "hey" after
\* trimming surrounding whitespace and ignoring case is answered with the
\* fixed greeting and city = null, with no outbound call.
C1_TrimmedGreeting ==
    (endpoint = "chat" /\ Truthy(user_input) /\ Lower(Strip(user_input)) \in Greetings)
    => /\ Done
       /\ response.status = 200
       /\ response.json.reply = Greeting
       /\ response.json.city = None
       /\ calls = <<>>

\* C1, amended: every /chat message that is "hi", "hello" or "hey" ignoring
\* case, with no surrounding whitespace, is answered 200 with the fixed
\* greeting and city = null, and no outbound call is issued.
C1_Greeting ==
    (endpoint = "chat" /\ Truthy(user_input) /\ Lower(user_input) \in Greetings)
    => /\ Done
       /\ response.status = 200
       /\ response.json.reply = Greeting
       /\ response.json.city = None
       /\ calls = <<>>

C1_Witness ==
    /\ endpoint = "chat"
    /\ user_input = <<"H", "E", "Y">>
    /\ response = Ok([reply |-> Greeting, city |-> None])

\* C2: every 200 response of /hotels has at most 5 entries, whatever the
\* points-of-interest upstream answers, and each entry's three links are
\* non-empty and built from the entry's name and the request's city.
C2_AtMostFive ==
    IsArray =>
      /\ Len(response.json) <= Limit
      /\ \A i \in 1..Len(response.json) :
           LET h == response.json[i] IN
             /\ h.map_link # <<>>
             /\ h.booking_link =
                  <<"https://www.booking.com/searchresults.html?ss=">>
                  \o h.name \o <<"+">> \o query
             /\ h.google_maps_link =
                  <<"https://www.google.com/maps/search/">> \o h.name \o <<"+">> \o query

\* C3: when the weather upstream's answer is not a success, or is an object
\* that lacks main, main.temp or weather[0].description, /weather answers
\* 404 "Weather not found", never 500.
C3_LacksFields(d) ==
    \/ ~d.main
    \/ d.temp = Missing
    \/ ~d.weather
    \/ d.items = <<>>
    \/ d.items[1] = Missing

C3_MissingFields404 ==
    (endpoint = "weather" /\ Done /\ wx.kind = "ok" /\ wx.data.shape = "dict"
       /\ (wx.status # 200 \/ C3_LacksFields(wx.data)))
    => ErrorIs(404, <<"Weather not found">>)

\* C4: once the itinerary call of /chat has succeeded, every outcome of the
\* city extraction and of the geocoding fallback gives a 200 response whose
\* reply is the itinerary; a failure of either step is not surfaced and
\* leaves city null.
C4_Step2Failed == step2.kind = "raise" \/ (step2.kind = "ok" /\ step2.v = None)

C4_BestEffort ==
    (endpoint = "chat" /\ Done /\ Called("openai_city"))
    => /\ response.status = 200
       /\ ~HasField("error")
       /\ response.json.reply = reply
       /\ (C4_Step2Failed /\ step3 # "ok" => response.json.city = None)
       /\ (step3 = "raised" => response.json.city = None)

\* C5: /weather, /hotels and /geocode answer 400 with "City is required"
\* (weather, hotels) or "Place is required" (geocode) when the required
\* query parameter is absent or empty, before any outbound call.
C5_Message ==
    IF endpoint = "geocode" THEN <<"Place is required">> ELSE <<"City is required">>

C5_MissingParam400 ==
    (endpoint \in {"weather", "hotels", "geocode"} /\ (query = None \/ query = <<>>))
    => /\ Done
       /\ ErrorIs(400, C5_Message)
       /\ calls = <<>>

C5_Witness ==
    /\ endpoint = "hotels"
    /\ query = <<>>
    /\ response.status = 400
    /\ calls = <<>>

\* C6: when the geocoding search returns no candidate, /geocode answers 404
\* with an "error" field and no "name" field, and /hotels answers 404
\* "City not found" without issuing the points-of-interest request.
C6_NoResults404 ==
    /\ (endpoint = "geocode" /\ nom = "empty")
         => Done /\ response.status = 404 /\ HasField("error") /\ ~HasField("name")
    /\ (endpoint = "hotels" /\ nom = "empty")
         => Done /\ ErrorIs(404, <<"City not found">>) /\ ~Called("opentripmap")

C6_Witness ==
    /\ endpoint = "geocode"
    /\ nom = "empty"
    /\ Len(calls) = 1
    /\ response.status = 404

\* C7: every handler ends with exactly one response, of status 200, 400,
\* 404 or 500; a non-200 response carries an "error" field and a 200
\* response carries none; an exception that escapes the try block becomes
\* a 500 carrying its message; no outbound call is issued twice.
C7_OneResponse ==
    /\ nresp = (IF Done THEN 1 ELSE 0)
    /\ (Done <=> response.status # 0)
    /\ Done => response.status \in {200, 400, 404, 500}
    /\ (Done /\ response.status # 200) => HasField("error")
    /\ response.status = 200 => ~HasField("error")
    /\ raised # NoExc => Done /\ ErrorIs(500, raised)
    /\ (Done /\ raised = NoExc) => response.status # 500
    /\ \A i, j \in 1..Len(calls) : calls[i].api = calls[j].api => i = j

C7_Witness ==
    /\ endpoint = "chat"
    /\ CallApis = <<"openai_itinerary">>
    /\ raised = <<"timeout">>
    /\ response.status = 500

\* C8: for a message that is no greeting, /chat issues its outbound calls in
\* the order itinerary, city extraction, geocoding, at most three in all;
\* the extraction only after the itinerary succeeded; the geocoding lookup
\* if and only if the extraction failed or its stripped result is empty; a
\* non-empty stripped result is the returned city, with no geocoding call.
C8_ExtractionEmpty ==
    \/ step2.kind = "raise"
    \/ step2.v = None
    \/ Strip(step2.v) = <<>>

C8_CallOrder ==
    endpoint = "chat" =>
      /\ IsPrefix(CallApis, <<"openai_itinerary", "openai_city", "nominatim">>)
      /\ Called("openai_city") => raised = NoExc
      /\ pc = "chat_geo" => C8_ExtractionEmpty
      /\ (Done /\ Called("openai_city")) => (Called("nominatim") <=> C8_ExtractionEmpty)
      /\ (Done /\ Called("openai_city") /\ ~C8_ExtractionEmpty)
           => /\ response.status = 200
              /\ response.json.city = Strip(step2.v)
              /\ ~Called("nominatim")

C8_Witness ==
    /\ endpoint = "chat"
    /\ Done
    /\ step2.kind = "ok"
    /\ step2.v = <<" ", "P", " ">>
    /\ response.status = 200
    /\ response.json.city = <<"P">>
    /\ Len(calls) = 2

\* C9, as stated: the 200 response of /hotels is exactly the upstream places
\* that have a non-empty name, in upstream order, with no entry for a place
\* whose name is empty or missing.
C9_Entry(place) ==
    [name |-> IF place.name = Missing THEN <<"Unnamed">> ELSE place.name,
     lat |-> place.lat, lon |-> place.lon]

C9_Entries == [i \in 1..Len(response.json) |->
                 [name |-> response.json[i].name,
                  lat |-> response.json[i].lat,
                  lon |-> response.json[i].lon]]

C9_HasName(place) == place.name # Missing /\ place.name # <<>>

C9_NamedOnly ==
    IsArray =>
      C9_Entries = [i \in 1..Len(SelectSeq(features, C9_HasName)) |->
                      C9_Entry(SelectSeq(features, C9_HasName)[i])]

\* C9, amended: the 200 response of /hotels has one entry, in upstream
\* order, for every upstream place whose name is not the empty string; a
\* place with no name at all is listed under the name "Unnamed".
C9_NotEmpty(place) == place.name # <<>>

C9_NamedOrUnnamed ==
    IsArray =>
      C9_Entries = [i \in 1..Len(SelectSeq(features, C9_NotEmpty)) |->
                      C9_Entry(SelectSeq(features, C9_NotEmpty)[i])]

C9_Witness ==
    /\ IsArray
    /\ Len(features) = 3
    /\ features[1].name = <<"B">>
    /\ features[2].name = <<>>
    /\ features[3].name = Missing
    /\ Len(response.json) = 2
    /\ response.json[2].name = <<"Unnamed">>

\* C10: in every 200 response of /chat, city is null or a non-empty string,
\* never the empty string.
C10_CityNeverEmpty ==
    (endpoint = "chat" /\ response.status = 200) => response.json.city # <<>>

====
